---- MODULE Spec2Model ----
(***************************************************************************)
(* Todo list: the Express/Mongoose service (routes GET/POST/PUT/DELETE     *)
(* /api/todos over the Todo collection) and the React client (App) that    *)
(* mirrors the collection in its local state.                              *)
(*                                                                         *)
(* Titles are sequences of characters, so that String.prototype.trim and   *)
(* JavaScript truthiness are computed, not assumed.  Timestamps are clock  *)
(* readings in milliseconds: two requests handled within the same          *)
(* millisecond read the same value.                                        *)
(***************************************************************************)
EXTENDS Integers, Sequences, FiniteSets, TLC

VARIABLES
    store,        \* the Todo collection: a set of documents
    nextId,       \* the next _id the database generates
    now,          \* the last reading of the server's clock
    reply,        \* the last response received by a direct caller of the API
    todos,        \* App state: todos
    title,        \* App state: title (the "add" input)
    loading,      \* App state: loading
    editingId,    \* App state: editingId
    editedTitle,  \* App state: editedTitle
    calls,        \* the async handler invocations of App awaiting their response
    issued,       \* how many requests App has sent since it was mounted
    raced,        \* history: App has had two requests awaiting at once
    last,         \* history: the last step App took, and the edit it found
    crashed       \* App's render threw: React has unmounted the tree

serverVars == <<store, nextId, now>>
clientVars == <<todos, title, loading, editingId, editedTitle, calls, issued,
               raced, last, crashed>>
vars == <<store, nextId, now, reply, todos, title, loading, editingId,
          editedTitle, calls, issued, raced, last, crashed>>

----------------------------------------------------------------------------
(* Bounds *)

\* documents ever created / clock range, service explored on its own
SvcMaxTodos == 2
SvcMaxTime == 1

\* the same, for the service under creates, toggles, deletes and lists
FlowMaxTodos == 3
FlowMaxTime == 2

\* one browser: requests sent in all, requests awaiting at once, clock range
SoloMaxIssued == 4
SoloMaxCalls == 2
SoloMaxTime == 1

\* one browser beside another caller: requests the browser sends in all and
\* has awaiting at once, clock range
MaxIssued == 4
MaxCalls == 2
MaxTime == 1

\* the same, for the behaviours in which the initial list request completes
LiveMaxIssued == 3
LiveMaxCalls == 2
LiveMaxTime == 1

----------------------------------------------------------------------------
(* JavaScript values *)

\* An optional value (a field a JSON body may or may not carry) is a sequence
\* of length at most one.
Absent == <<>>
Some(v) == <<v>>

\* !v for v an optional string: undefined and "" are falsy
Falsy(v) == v = Absent \/ v[1] = <<>>

RECURSIVE TrimStart(_)
TrimStart(s) == IF s # <<>> /\ Head(s) = " " THEN TrimStart(Tail(s)) ELSE s

RECURSIVE TrimEnd(_)
TrimEnd(s) ==
    IF s # <<>> /\ s[Len(s)] = " " THEN TrimEnd(SubSeq(s, 1, Len(s) - 1)) ELSE s

\* String.prototype.trim
trim(s) == TrimEnd(TrimStart(s))

----------------------------------------------------------------------------
(* The Todo model (models/todo.js) *)

\* no _id: generated _ids start at 1
NoId == 0

\* JSON null where a document is expected (reading a field of it throws)
Null == [_id |-> NoId, title |-> <<>>, completed |-> FALSE,
         createdAt |-> 0, updatedAt |-> 0]

\* title: { type: String, required: true }: Mongoose's required validator
\* for strings accepts any string of length > 0
RequiredOk(v) == v # Absent /\ Len(v[1]) > 0

NewTodoTwoReadings(id, ttl, t) ==
    [_id |-> id, title |-> ttl, completed |-> FALSE,
     createdAt |-> t, updatedAt |-> t + 1]

\* new Todo({ title }) saved at clock reading t under the generated _id;
\* completed takes its default and both timestamps are the same reading
NewTodo(id, ttl, t) ==
    [_id |-> id, title |-> ttl, completed |-> FALSE,
     createdAt |-> t, updatedAt |-> t]

Ids(S) == {d._id : d \in S}

ById(S, id) == CHOOSE d \in S : d._id = id

\* an update that replaces the document: fields not supplied fall back to
\* their defaults
ApplyUpdatesOverwrite(doc, updates, t) ==
    [doc EXCEPT
        !.title = IF updates.title # Absent THEN updates.title[1] ELSE @,
        !.completed = IF updates.completed # Absent THEN updates.completed[1]
                      ELSE FALSE,
        !.updatedAt = t]

\* an update that $sets every field of the body, createdAt included
ApplyUpdatesVerbatim(doc, updates, t) ==
    [doc EXCEPT
        !.title = IF updates.title # Absent THEN updates.title[1] ELSE @,
        !.completed = IF updates.completed # Absent THEN updates.completed[1] ELSE @,
        !.createdAt = IF updates.createdAt # Absent THEN updates.createdAt[1] ELSE @,
        !.updatedAt = t]

\* an update that keeps the updatedAt of the document
ApplyUpdatesNoTouch(doc, updates, t) ==
    [doc EXCEPT
        !.title = IF updates.title # Absent THEN updates.title[1] ELSE @,
        !.completed = IF updates.completed # Absent THEN updates.completed[1] ELSE @]

\* the document after findByIdAndUpdate(id, updates): the supplied schema
\* fields are $set, updatedAt is set to the clock reading, and a createdAt in
\* the update is dropped (timestamps are managed by the schema)
ApplyUpdates(doc, updates, t) ==
    [doc EXCEPT
        !.title = IF updates.title # Absent THEN updates.title[1] ELSE @,
        !.completed = IF updates.completed # Absent THEN updates.completed[1] ELSE @,
        !.updatedAt = t]

\* findByIdAndUpdate with { upsert: true }
FindByIdAndUpdateUpsert(S, id, updates, t) ==
    LET old == IF id \in Ids(S) THEN ById(S, id) ELSE NewTodo(id, <<>>, t)
        new == [old EXCEPT
                   !.title = IF updates.title # Absent THEN updates.title[1] ELSE @,
                   !.completed = IF updates.completed # Absent
                                 THEN updates.completed[1] ELSE @,
                   !.updatedAt = t]
    IN  [doc |-> new, store |-> (S \ {old}) \cup {new}]

\* Todo.findByIdAndUpdate(id, updates, { new: true }): [doc, store]
FindByIdAndUpdate(S, id, updates, t) ==
    IF id \notin Ids(S)
    THEN [doc |-> Null, store |-> S]
    ELSE LET old == ById(S, id)
             new == ApplyUpdates(old, updates, t)
         IN  [doc |-> new, store |-> (S \ {old}) \cup {new}]

\* Todo.findByIdAndDelete(id)
FindByIdAndDelete(S, id) == {d \in S : d._id # id}

SortedDesc(s) == \A i \in 1..(Len(s) - 1) : s[i].createdAt >= s[i + 1].createdAt

RECURSIVE Perms(_)
Perms(S) ==
    IF S = {} THEN {<<>>}
    ELSE UNION {{<<x>> \o p : p \in Perms(S \ {x})} : x \in S}

SortedDescUpdated(s) ==
    \A i \in 1..(Len(s) - 1) : s[i].updatedAt >= s[i + 1].updatedAt

\* a sort by updatedAt
FindSortedByUpdated(S) == {p \in Perms(S) : SortedDescUpdated(p)}

\* Todo.find().sort({ createdAt: -1 }): every order the sort may return
\* (documents with equal createdAt come in an order the database chooses)
FindSorted(S) == {p \in Perms(S) : SortedDesc(p)}

----------------------------------------------------------------------------
(* The routes (routes/todo.js).  ok: the database operation succeeds.      *)
(* A response is [status, data, text]: data is the sequence of documents   *)
(* the JSON body carries (the array of GET, the one document or null of    *)
(* POST and PUT), text the message or error string of the other bodies.    *)

ErrorText == "error"
TitleRequired == "Title required"
DeletedMessage == "Todo deleted successfully"

Response(status, data, text, S) ==
    [status |-> status, data |-> data, text |-> text, store |-> S]

\* res.status(500).json({ error: err.message })
ServerError(S) == Response(500, <<>>, ErrorText, S)

\* router.get("/"): the responses it may send
GetRoute(S, ok) ==
    IF ~ok THEN {ServerError(S)}
    ELSE {Response(200, p, "", S) : p \in FindSorted(S)}

\* router.post("/")
PostRoute(S, body, id, t, ok) ==
    IF Falsy(body.title)
    THEN Response(400, <<>>, TitleRequired, S)
    ELSE IF ~ok \/ ~RequiredOk(body.title)
    THEN ServerError(S)
    ELSE LET todo == NewTodo(id, body.title[1], t)
         IN  Response(201, <<todo>>, "", S \cup {todo})

\* router.put("/:id")
PutRoute(S, id, updates, t, ok) ==
    IF ~ok THEN ServerError(S)
    ELSE LET r == FindByIdAndUpdate(S, id, updates, t)
         IN  Response(200, <<r.doc>>, "", r.store)

\* a delete route that answers 404 when no document matches
DeleteRouteNotFound(S, id, ok) ==
    IF ~ok THEN ServerError(S)
    ELSE IF id \notin Ids(S) THEN Response(404, <<>>, ErrorText, S)
    ELSE Response(200, <<>>, DeletedMessage, FindByIdAndDelete(S, id))

\* router.delete("/:id")
DeleteRoute(S, id, ok) ==
    IF ~ok THEN ServerError(S)
    ELSE Response(200, <<>>, DeletedMessage, FindByIdAndDelete(S, id))

----------------------------------------------------------------------------
(* Requests sent to the API directly (another browser, curl) *)

\* a JSON body: the fields it carries
UpdateBody(v, c, k) == [title |-> v, completed |-> c, createdAt |-> k]

BodyTitles == {Absent, Some(<<>>), Some(<<" ">>), Some(<<"a">>)}

PostBodies == {UpdateBody(v, Absent, Absent) : v \in BodyTitles}

\* bodies with a title only, completed only, both, neither, or a createdAt
PutBodies ==
    {UpdateBody(v, Absent, Absent) : v \in {Absent, Some(<<>>), Some(<<"a">>)}}
    \cup {UpdateBody(Absent, Some(c), Absent) : c \in BOOLEAN}
    \cup {UpdateBody(Some(<<"a">>), Some(TRUE), Absent),
          UpdateBody(Absent, Absent, Some(0))}

\* the readings the clock may give to the next request
Clock(maxT) == {t \in {now, now + 1} : t <= maxT}

NoBody == UpdateBody(Absent, Absent, Absent)

\* what the caller holds once the response has arrived: the request (method,
\* :id and body) and the response
Reply(op, id, body, r) ==
    [op |-> op, id |-> id, body |-> body,
     status |-> r.status, data |-> r.data, text |-> r.text]

DirectList(ok) ==
    /\ \E r \in GetRoute(store, ok) : reply' = Reply("GET", NoId, NoBody, r)
    /\ UNCHANGED <<serverVars, clientVars>>

DirectCreate(body, t, ok) ==
    LET r == PostRoute(store, body, nextId, t, ok)
    IN  /\ store' = r.store
        /\ nextId' = IF r.status = 201 THEN nextId + 1 ELSE nextId
        /\ now' = IF r.status = 201 THEN t ELSE now
        /\ reply' = Reply("POST", NoId, body, r)
        /\ UNCHANGED clientVars

DirectUpdate(id, updates, t, ok) ==
    LET r == PutRoute(store, id, updates, t, ok)
    IN  /\ store' = r.store
        /\ now' = IF ok THEN t ELSE now
        /\ reply' = Reply("PUT", id, updates, r)
        /\ UNCHANGED <<nextId, clientVars>>

\* a toggle: an update that carries the negation of the stored completed flag
DirectToggle(id, t) ==
    /\ id \in Ids(store)
    /\ DirectUpdate(id, UpdateBody(Absent, Some(~ById(store, id).completed), Absent),
                    t, TRUE)

DirectDelete(id, ok) ==
    LET r == DeleteRoute(store, id, ok)
    IN  /\ store' = r.store
        /\ reply' = Reply("DELETE", id, NoBody, r)
        /\ UNCHANGED <<nextId, now, clientVars>>

----------------------------------------------------------------------------
(* App (App.jsx).  An async handler that has reached its await is a call:  *)
(* the values its closure captured, and, once the server has answered, the *)
(* outcome of the promise (phase "ok": resolved with data; "err":          *)
(* rejected, axios rejecting every status outside 2xx).                    *)

Call(kind, id, text, flag, snap) ==
    [kind |-> kind, id |-> id, text |-> text, flag |-> flag, snap |-> snap,
     phase |-> "sent", data |-> <<>>]

\* useEffect(() => { fetchTodos() }, []) up to await apiGetTodos()
FetchCall == Call("fetch", NoId, <<>>, FALSE, <<>>)

\* no call: the step was not the continuation of a handler
NoCall == Call("none", NoId, <<>>, FALSE, <<>>)

\* the step App takes: the handler act, the call it resumed (with the outcome
\* of its promise) or sent, and the edit target and draft the step found
Did(act, c) ==
    last' = [act |-> act, call |-> c, editingId |-> editingId,
             editedTitle |-> editedTitle]

Init ==
    /\ store = {}
    /\ nextId = 1
    /\ now = 0
    /\ reply = [op |-> "none", id |-> NoId, body |-> NoBody, status |-> 0,
                data |-> <<>>, text |-> ""]
    /\ todos = <<>>
    /\ title = <<>>
    /\ loading = TRUE
    /\ editingId = NoId
    /\ editedTitle = <<>>
    /\ calls = <<FetchCall>>
    /\ issued = 1
    /\ raced = FALSE
    /\ last = [act |-> "mount", call |-> FetchCall, editingId |-> NoId,
               editedTitle |-> <<>>]
    /\ crashed = FALSE

RemoveAt(s, i) == SubSeq(s, 1, i - 1) \o SubSeq(s, i + 1, Len(s))

\* the handler sends its request and awaits the response
Send(c, maxCalls, maxIssued) ==
    /\ Len(calls) < maxCalls
    /\ issued < maxIssued
    /\ calls' = Append(calls, c)
    /\ issued' = issued + 1
    /\ raced' = (raced \/ calls # <<>>)

Settle(c, r) ==
    [c EXCEPT !.phase = IF r.status \in 200..299 THEN "ok" ELSE "err",
              !.data = r.data]

Pending(i, kind) ==
    /\ i \in 1..Len(calls)
    /\ calls[i].kind = kind
    /\ calls[i].phase = "sent"

Settled(i, kind) ==
    /\ ~crashed
    /\ i \in 1..Len(calls)
    /\ calls[i].kind = kind
    /\ calls[i].phase # "sent"

\* the server answers apiGetTodos()
ServeList(i, ok) ==
    /\ Pending(i, "fetch")
    /\ \E r \in GetRoute(store, ok) : calls' = [calls EXCEPT ![i] = Settle(@, r)]
    /\ UNCHANGED <<issued, raced, last, serverVars, reply, todos, title, loading,
                   editingId, editedTitle, crashed>>

\* the server answers apiCreateTodo(title)
ServeCreate(i, t, ok) ==
    /\ Pending(i, "add")
    /\ LET r == PostRoute(store, UpdateBody(Some(calls[i].text), Absent, Absent),
                          nextId, t, ok)
       IN  /\ store' = r.store
           /\ nextId' = IF r.status = 201 THEN nextId + 1 ELSE nextId
           /\ now' = IF r.status = 201 THEN t ELSE now
           /\ calls' = [calls EXCEPT ![i] = Settle(@, r)]
    /\ UNCHANGED <<issued, raced, last, reply, todos, title, loading, editingId,
                   editedTitle, crashed>>

\* the body of the PUT a call sends
CallUpdates(c) ==
    IF c.kind = "toggle" THEN UpdateBody(Absent, Some(c.flag), Absent)
    ELSE UpdateBody(Some(c.text), Absent, Absent)

\* the server answers apiUpdateTodo(id, updates)
ServeUpdate(i, t, ok) ==
    /\ Pending(i, "toggle") \/ Pending(i, "save")
    /\ LET r == PutRoute(store, calls[i].id, CallUpdates(calls[i]), t, ok)
       IN  /\ store' = r.store
           /\ now' = IF ok THEN t ELSE now
           /\ calls' = [calls EXCEPT ![i] = Settle(@, r)]
    /\ UNCHANGED <<issued, raced, last, nextId, reply, todos, title, loading,
                   editingId, editedTitle, crashed>>

\* the server answers apiDeleteTodo(id)
ServeDelete(i, ok) ==
    /\ Pending(i, "delete")
    /\ LET r == DeleteRoute(store, calls[i].id, ok)
       IN  /\ store' = r.store
           /\ calls' = [calls EXCEPT ![i] = Settle(@, r)]
    /\ UNCHANGED <<issued, raced, last, nextId, now, reply, todos, title, loading,
                   editingId, editedTitle, crashed>>

\* the list is rendered (todos.map) when loading is false and todos is not
\* empty; rendering a null element reads todo._id of null and throws
RenderThrows(list, isLoading) ==
    ~isLoading /\ \E k \in 1..Len(list) : list[k] = Null

\* a fetchTodos that calls setLoading(false) in its try block
FetchDoneNoFinally(i) ==
    /\ Settled(i, "fetch")
    /\ todos' = IF calls[i].phase = "ok" THEN calls[i].data ELSE todos
    /\ loading' = (calls[i].phase # "ok")
    /\ crashed' = RenderThrows(todos', loading')
    /\ Did("fetchTodos", calls[i])
    /\ calls' = RemoveAt(calls, i)
    /\ UNCHANGED <<issued, raced, serverVars, reply, title, editingId, editedTitle>>

\* a fetchTodos that puts the response before what the list holds
FetchDoneMerge(i) ==
    /\ Settled(i, "fetch")
    /\ todos' = IF calls[i].phase = "ok" THEN calls[i].data \o todos ELSE todos
    /\ loading' = FALSE
    /\ crashed' = RenderThrows(todos', loading')
    /\ Did("fetchTodos", calls[i])
    /\ calls' = RemoveAt(calls, i)
    /\ UNCHANGED <<issued, raced, serverVars, reply, title, editingId, editedTitle>>

\* fetchTodos after its await: setTodos(response.data), setLoading(false)
FetchDone(i) ==
    /\ Settled(i, "fetch")
    /\ todos' = IF calls[i].phase = "ok" THEN calls[i].data ELSE todos
    /\ loading' = FALSE
    /\ crashed' = RenderThrows(todos', loading')
    /\ Did("fetchTodos", calls[i])
    /\ calls' = RemoveAt(calls, i)
    /\ UNCHANGED <<issued, raced, serverVars, reply, title, editingId, editedTitle>>

\* <input onChange={(e) => setTitle(e.target.value)}>
TypeTitle(v) ==
    /\ ~crashed
    /\ title' = v
    /\ Did("setTitle", NoCall)
    /\ UNCHANGED <<issued, raced, serverVars, reply, todos, loading, editingId, editedTitle,
                   calls, crashed>>

\* handleAddTodo up to its await: todos and title are those of the render
\* the handler was created in
SubmitAdd(maxCalls, maxIssued) ==
    /\ ~crashed
    /\ IF trim(title) = <<>>
       THEN UNCHANGED <<calls, issued, raced>> /\ Did("handleAddTodo", NoCall)
       ELSE LET c == Call("add", NoId, trim(title), FALSE, todos)
            IN  Send(c, maxCalls, maxIssued) /\ Did("handleAddTodo", c)
    /\ UNCHANGED <<serverVars, reply, todos, title, loading, editingId,
                   editedTitle, crashed>>

\* [...todos, response.data]
Append1(doc, list) == list \o <<doc>>

\* [response.data, ...todos]
Prepend(doc, list) == <<doc>> \o list

\* a handleAddTodo with a functional updater:
\* setTodos((prev) => [response.data, ...prev])
AddDoneCurrent(i) ==
    /\ Settled(i, "add")
    /\ IF calls[i].phase = "ok"
       THEN /\ todos' = Prepend(calls[i].data[1], todos)
            /\ title' = <<>>
       ELSE UNCHANGED <<todos, title>>
    /\ crashed' = RenderThrows(todos', loading)
    /\ Did("handleAddTodo", calls[i])
    /\ calls' = RemoveAt(calls, i)
    /\ UNCHANGED <<issued, raced, serverVars, reply, loading, editingId, editedTitle>>

\* handleAddTodo after its await: setTodos([response.data, ...todos]),
\* setTitle("")
AddDone(i) ==
    /\ Settled(i, "add")
    /\ IF calls[i].phase = "ok"
       THEN /\ todos' = Prepend(calls[i].data[1], calls[i].snap)
            /\ title' = <<>>
       ELSE UNCHANGED <<todos, title>>
    /\ crashed' = RenderThrows(todos', loading)
    /\ Did("handleAddTodo", calls[i])
    /\ calls' = RemoveAt(calls, i)
    /\ UNCHANGED <<issued, raced, serverVars, reply, loading, editingId, editedTitle>>

\* the k-th <li> is on screen
Shown(k) == ~crashed /\ ~loading /\ k \in 1..Len(todos)

\* handleToggle(todo) up to its await
ClickToggle(k, maxCalls, maxIssued) ==
    /\ Shown(k)
    /\ LET c == Call("toggle", todos[k]._id, <<>>, ~todos[k].completed, <<>>)
       IN  Send(c, maxCalls, maxIssued) /\ Did("handleToggle", c)
    /\ UNCHANGED <<serverVars, reply, todos, title, loading, editingId,
                   editedTitle, crashed>>

\* a replacement that puts the returned record first when no element matches
ReplaceOrInsert(prev, doc) ==
    IF \E k \in 1..Len(prev) : prev[k]._id = doc._id
    THEN [k \in 1..Len(prev) |-> IF prev[k]._id = doc._id THEN doc ELSE prev[k]]
    ELSE <<doc>> \o prev

\* prev.map((t) => (t._id === response.data._id ? response.data : t))
ReplaceReturned(prev, doc) ==
    [k \in 1..Len(prev) |-> IF prev[k]._id = doc._id THEN doc ELSE prev[k]]

\* handleToggle after its await.  With response.data null the updater throws
\* on the first element it visits, while React renders.
ToggleDone(i) ==
    /\ Settled(i, "toggle")
    /\ IF calls[i].phase = "ok"
       THEN IF calls[i].data[1] = Null
            THEN /\ crashed' = (todos # <<>>)
                 /\ UNCHANGED todos
            ELSE /\ todos' = ReplaceReturned(todos, calls[i].data[1])
                 /\ crashed' = RenderThrows(todos', loading)
       ELSE UNCHANGED <<todos, crashed>>
    /\ Did("handleToggle", calls[i])
    /\ calls' = RemoveAt(calls, i)
    /\ UNCHANGED <<issued, raced, serverVars, reply, title, loading, editingId, editedTitle>>

\* handleDelete(id) up to its await (the Delete button of a row that is not
\* being edited)
ClickDelete(k, maxCalls, maxIssued) ==
    /\ Shown(k)
    /\ editingId # todos[k]._id
    /\ LET c == Call("delete", todos[k]._id, <<>>, FALSE, <<>>)
       IN  Send(c, maxCalls, maxIssued) /\ Did("handleDelete", c)
    /\ UNCHANGED <<serverVars, reply, todos, title, loading, editingId,
                   editedTitle, crashed>>

\* prev.filter((t) => t._id !== id)
FilterOut(prev, id) == SelectSeq(prev, LAMBDA t : t._id # id)

\* a handleDelete that removes the record whatever the outcome
DeleteDoneAnyway(i) ==
    /\ Settled(i, "delete")
    /\ todos' = FilterOut(todos, calls[i].id)
    /\ crashed' = RenderThrows(todos', loading)
    /\ Did("handleDelete", calls[i])
    /\ calls' = RemoveAt(calls, i)
    /\ UNCHANGED <<issued, raced, serverVars, reply, title, loading, editingId, editedTitle>>

\* handleDelete after its await
DeleteDone(i) ==
    /\ Settled(i, "delete")
    /\ todos' = IF calls[i].phase = "ok" THEN FilterOut(todos, calls[i].id)
                ELSE todos
    /\ crashed' = RenderThrows(todos', loading)
    /\ Did("handleDelete", calls[i])
    /\ calls' = RemoveAt(calls, i)
    /\ UNCHANGED <<issued, raced, serverVars, reply, title, loading, editingId, editedTitle>>

\* a startEditing that seeds the draft only when no edit is in progress
StartEditingKeepDraft(k) ==
    /\ Shown(k)
    /\ editingId # todos[k]._id
    /\ editingId' = todos[k]._id
    /\ editedTitle' = IF editingId = NoId THEN todos[k].title ELSE editedTitle
    /\ Did("startEditing", NoCall)
    /\ UNCHANGED <<issued, raced, serverVars, reply, todos, title, loading, calls, crashed>>

\* startEditing(todo) (the Edit button of a row that is not being edited)
StartEditing(k) ==
    /\ Shown(k)
    /\ editingId # todos[k]._id
    /\ editingId' = todos[k]._id
    /\ editedTitle' = todos[k].title
    /\ Did("startEditing", NoCall)
    /\ UNCHANGED <<issued, raced, serverVars, reply, todos, title, loading, calls, crashed>>

\* the row being edited is on screen
Editing(k) == Shown(k) /\ editingId = todos[k]._id

\* <input onChange={(e) => setEditedTitle(e.target.value)}>
TypeEdited(v) ==
    /\ \E k \in 1..Len(todos) : Editing(k)
    /\ editedTitle' = v
    /\ Did("setEditedTitle", NoCall)
    /\ UNCHANGED <<issued, raced, serverVars, reply, todos, title, loading, editingId, calls,
                   crashed>>

\* cancelEditing (the Cancel button)
CancelEditing ==
    /\ \E k \in 1..Len(todos) : Editing(k)
    /\ editingId' = NoId
    /\ editedTitle' = <<>>
    /\ Did("cancelEditing", NoCall)
    /\ UNCHANGED <<issued, raced, serverVars, reply, todos, title, loading, calls, crashed>>

\* saveEditedTodo(id) up to its await (the Save button)
ClickSave(k, maxCalls, maxIssued) ==
    /\ Editing(k)
    /\ IF trim(editedTitle) = <<>>
       THEN UNCHANGED <<calls, issued, raced>> /\ Did("saveEditedTodo", NoCall)
       ELSE LET c == Call("save", todos[k]._id, trim(editedTitle), FALSE, <<>>)
            IN  Send(c, maxCalls, maxIssued) /\ Did("saveEditedTodo", c)
    /\ UNCHANGED <<serverVars, reply, todos, title, loading, editingId,
                   editedTitle, crashed>>

\* prev.map((t) => (t._id === id ? response.data : t))
ReplaceById(prev, id, doc) ==
    [k \in 1..Len(prev) |-> IF prev[k]._id = id THEN doc ELSE prev[k]]

\* a saveEditedTodo that leaves edit mode whatever the outcome
SaveDoneClosing(i) ==
    /\ Settled(i, "save")
    /\ todos' = IF calls[i].phase = "ok"
                THEN ReplaceById(todos, calls[i].id, calls[i].data[1])
                ELSE todos
    /\ editingId' = NoId
    /\ editedTitle' = <<>>
    /\ crashed' = RenderThrows(todos', loading)
    /\ Did("saveEditedTodo", calls[i])
    /\ calls' = RemoveAt(calls, i)
    /\ UNCHANGED <<issued, raced, serverVars, reply, title, loading>>

\* saveEditedTodo after its await: setTodos(...), cancelEditing()
SaveDone(i) ==
    /\ Settled(i, "save")
    /\ IF calls[i].phase = "ok"
       THEN /\ todos' = ReplaceById(todos, calls[i].id, calls[i].data[1])
            /\ editingId' = NoId
            /\ editedTitle' = <<>>
       ELSE UNCHANGED <<todos, editingId, editedTitle>>
    /\ crashed' = RenderThrows(todos', loading)
    /\ Did("saveEditedTodo", calls[i])
    /\ calls' = RemoveAt(calls, i)
    /\ UNCHANGED <<issued, raced, serverVars, reply, title, loading>>

----------------------------------------------------------------------------
(* The service under arbitrary direct requests, the database being up *)

SvcNext ==
    \/ DirectList(TRUE)
    \/ /\ nextId <= SvcMaxTodos
       /\ \E body \in PostBodies, t \in Clock(SvcMaxTime) :
              DirectCreate(body, t, TRUE)
    \/ \E id \in 1..nextId, updates \in PutBodies, t \in Clock(SvcMaxTime) :
              DirectUpdate(id, updates, t, TRUE)
    \/ \E id \in 1..nextId : DirectDelete(id, TRUE)

SvcSpec == Init /\ [][SvcNext]_vars

----------------------------------------------------------------------------
(* The service under the requests of well-behaved callers: creates with a  *)
(* title, toggles, deletes and lists                                       *)

FlowNext ==
    \/ DirectList(TRUE)
    \/ /\ nextId <= FlowMaxTodos
       /\ \E t \in Clock(FlowMaxTime) :
              DirectCreate(UpdateBody(Some(<<"a">>), Absent, Absent), t, TRUE)
    \/ \E id \in 1..nextId, t \in Clock(FlowMaxTime) : DirectToggle(id, t)
    \/ \E id \in 1..nextId : DirectDelete(id, TRUE)

FlowSpec == Init /\ [][FlowNext]_vars

----------------------------------------------------------------------------
(* Properties of the service *)

\* a title that is absent, empty or whitespace-only
Blank(v) == v = Absent \/ trim(v[1]) = <<>>

Elems(s) == {s[i] : i \in 1..Len(s)}

\* a step in which a direct caller receives the reply to the request reply'
\* describes (sending the same request again to the same effect changes
\* nothing at all)
Replied(op) == reply' # reply /\ reply'.op = op

\* C1: POST /api/todos answers every request whose title is absent, empty or
\* whitespace-only with 400 "Title required" and leaves the collection as it
\* was.
C1_BlankTitleRejected ==
    [][(Replied("POST") /\ Blank(reply'.body.title))
          => /\ reply'.status = 400
             /\ reply'.text = TitleRequired
             /\ store' = store]_vars

\* C2: every persisted document has a non-empty title, in every reachable
\* state of the collection.
C2_TitleNeverEmpty == \A d \in store : d.title # <<>>

\* C4: a Create with a valid title succeeds and adds
\* exactly one document to the collection: the given title, completed = false,
\* an _id no document has or had, createdAt = updatedAt; a List then returns
\* exactly the collection, the new document once.
C4_CreateThenList ==
    [][/\ (Replied("POST") /\ reply'.status = 201)
             => /\ Len(reply'.data) = 1
                /\ LET new == reply'.data[1]
                   IN  /\ new \notin store
                       /\ store' = store \cup {new}
                       /\ new.title = reply'.body.title[1]
                       /\ new.completed = FALSE
                       /\ new.createdAt = new.updatedAt
                       /\ new._id >= nextId
                       /\ new._id \notin Ids(store)
       /\ (Replied("POST") /\ ~Falsy(reply'.body.title))
             => reply'.status = 201
       /\ (Replied("GET") /\ reply'.status = 200)
             => /\ store' = store
                /\ Elems(reply'.data) = store
                /\ Len(reply'.data) = Cardinality(store)
                /\ (reply.op = "POST" /\ reply.status = 201)
                       => Cardinality({i \in 1..Len(reply'.data) :
                                          reply'.data[i] = reply.data[1]}) = 1
       /\ \A d \in store' : d._id < nextId']_vars

\* a List has been answered with the collection: two documents, the newer
\* one as its Create left it
C4_Witness ==
    /\ reply.op = "GET"
    /\ reply.status = 200
    /\ Len(reply.data) = 2
    /\ \E i \in 1..2 :
          /\ reply.data[i]._id = nextId - 1
          /\ reply.data[i] = NewTodo(nextId - 1, <<"a">>, now)

\* C5: an _id the collection has given out and holds no more never comes
\* back, whatever requests follow, and no List response carries it.
C5_DeletedStaysDeleted ==
    [][/\ \A i \in 1..(nextId - 1) : i \notin Ids(store) => i \notin Ids(store')
       /\ (Replied("GET") /\ reply'.status = 200)
             => \A i \in 1..(nextId - 1) :
                    i \notin Ids(store) => i \notin Ids(Elems(reply'.data))]_vars

\* an Update has been answered for a deleted _id, which is still gone
C5_Witness ==
    /\ reply.op = "PUT"
    /\ reply.status = 200
    /\ reply.id < nextId
    /\ reply.id \notin Ids(store)
    /\ reply.body.title # Absent
    /\ store # {}

C7_PartialUpdate ==
    [][(Replied("PUT") /\ reply'.status = 200 /\ reply'.id \in Ids(store))
          => /\ reply'.id \in Ids(store')
             /\ LET old == ById(store, reply'.id)
                    new == ById(store', reply'.id)
                    updates == reply'.body
                IN  /\ reply'.data = <<new>>
                    /\ store' \ {new} = store \ {old}
                    /\ new._id = old._id
                    /\ new.createdAt = old.createdAt
                    /\ updates.title = Absent => new.title = old.title
                    /\ updates.title # Absent => new.title = updates.title[1]
                    /\ updates.completed = Absent
                           => new.completed = old.completed
                    /\ updates.completed # Absent
                           => new.completed = updates.completed[1]]_vars

\* an Update with a title only has been answered with a document that is
\* still completed, beside another document
C7_Witness ==
    /\ reply.op = "PUT"
    /\ reply.status = 200
    /\ reply.body.title # Absent
    /\ reply.body.completed = Absent
    /\ reply.data[1] \in store
    /\ reply.data[1].completed = TRUE
    /\ Cardinality(store) >= 2

\* C10: createdAt <= updatedAt for every persisted document, and no request
\* changes the createdAt of a document, whatever its body carries.
C10_Timestamps ==
    [][/\ \A d \in store' : d.createdAt <= d.updatedAt
       /\ \A d \in store, e \in store' :
              d._id = e._id => e.createdAt = d.createdAt]_vars

\* an Update whose body carries another createdAt has been answered
C10_Witness ==
    /\ reply.op = "PUT"
    /\ reply.status = 200
    /\ reply.body.createdAt # Absent
    /\ reply.data[1] \in store
    /\ reply.data[1].createdAt # reply.body.createdAt[1]

\* C8 as stated: a toggle inverts the completed flag, so that a second toggle
\* restores it, and every toggle strictly increases updatedAt.
C8_ToggleStrictlyLater ==
    [][(Replied("PUT") /\ reply'.id \in Ids(store))
          => LET old == ById(store, reply'.id)
                 new == ById(store', reply'.id)
             IN  /\ new.completed = ~old.completed
                 /\ new.updatedAt > old.updatedAt]_vars

\* C8, amended: a toggle inverts the completed flag and nothing else but
\* updatedAt, and a second toggle of the same document restores the flag;
\* updatedAt is the clock reading of the toggle, which is never lower than
\* before and is higher whenever the clock has advanced since the last
\* request.
C8_ToggleTwice ==
    [][(Replied("PUT") /\ reply'.id \in Ids(store))
          => LET old == ById(store, reply'.id)
                 new == ById(store', reply'.id)
             IN  /\ new = [old EXCEPT !.completed = ~old.completed,
                                      !.updatedAt = now']
                 /\ new.updatedAt >= old.updatedAt
                 /\ now' > now => new.updatedAt > old.updatedAt
                 /\ (reply.op = "PUT" /\ reply.id = reply'.id)
                        => new.completed = ~reply.body.completed[1]]_vars

\* a document toggled an even number of times, at least twice: its flag is
\* back to the default it was created with and its updatedAt has advanced
C8_Witness ==
    /\ reply.op = "PUT"
    /\ reply.data[1] \in store
    /\ reply.data[1].completed = FALSE
    /\ reply.data[1].updatedAt > reply.data[1].createdAt

\* C9: List returns every stored document, each once, by createdAt
\* descending, whatever Updates the documents have received; with no document
\* it returns the empty sequence.
C9_ListOrder ==
    [][Replied("GET")
          => /\ reply'.status = 200
             /\ Elems(reply'.data) = store
             /\ Len(reply'.data) = Cardinality(store)
             /\ \A i, j \in 1..Len(reply'.data) :
                    reply'.data[i].createdAt > reply'.data[j].createdAt => i < j
             /\ store = {} => reply'.data = <<>>]_vars

\* a List of three documents created at t1 < t2 < t3, answered [t3, t2, t1]
\* although the oldest was updated last
C9_Witness ==
    /\ reply.op = "GET"
    /\ Len(reply.data) = 3
    /\ reply.data[1].createdAt > reply.data[2].createdAt
    /\ reply.data[2].createdAt > reply.data[3].createdAt
    /\ reply.data[3].updatedAt > reply.data[2].updatedAt
    /\ reply.data[3].updatedAt >= reply.data[1].updatedAt

----------------------------------------------------------------------------
(* One browser, no other caller, every request succeeding *)

AddTyped == {<<"a", " ">>}
EditTyped == {<<" ">>, <<"b", " ">>}

SoloNext ==
    \/ \E i \in 1..Len(calls) : ServeList(i, TRUE)
    \/ \E i \in 1..Len(calls), t \in Clock(SoloMaxTime) : ServeCreate(i, t, TRUE)
    \/ \E i \in 1..Len(calls), t \in Clock(SoloMaxTime) : ServeUpdate(i, t, TRUE)
    \/ \E i \in 1..Len(calls) : ServeDelete(i, TRUE)
    \/ \E i \in 1..Len(calls) : FetchDone(i)
    \/ \E i \in 1..Len(calls) : AddDone(i)
    \/ \E i \in 1..Len(calls) : ToggleDone(i)
    \/ \E i \in 1..Len(calls) : DeleteDone(i)
    \/ \E i \in 1..Len(calls) : SaveDone(i)
    \/ \E v \in AddTyped : TypeTitle(v)
    \/ SubmitAdd(SoloMaxCalls, SoloMaxIssued)
    \/ \E k \in 1..Len(todos) : ClickToggle(k, SoloMaxCalls, SoloMaxIssued)
    \/ \E k \in 1..Len(todos) : ClickDelete(k, SoloMaxCalls, SoloMaxIssued)
    \/ \E k \in 1..Len(todos) : StartEditing(k)
    \/ \E v \in EditTyped : TypeEdited(v)
    \/ CancelEditing
    \/ \E k \in 1..Len(todos) : ClickSave(k, SoloMaxCalls, SoloMaxIssued)

SoloSpec == Init /\ [][SoloNext]_vars

\* no request is awaiting its response and the initial fetch is over
Quiet == calls = <<>> /\ ~loading

\* C3 as stated: whenever no request is outstanding and the initial fetch
\* has completed, the local sequence is the collection listed most recent
\* first, for every interleaving of the actions and of their responses.
C3_MirrorsStore == Quiet => todos \in FindSorted(store)

\* C3, amended: the same, for a client that has never had two requests
\* outstanding at once.
C3_MirrorsStoreInTurn == (Quiet /\ ~raced) => todos \in FindSorted(store)

\* two Adds and another request, each sent after the previous response, have
\* left two documents on both sides, one of them changed by an Update
C3_Witness ==
    /\ Quiet
    /\ ~raced
    /\ issued = 4
    /\ Len(todos) = 2
    /\ todos[1].createdAt > todos[2].createdAt
    /\ \E k \in 1..2 : todos[k].updatedAt > todos[k].createdAt

----------------------------------------------------------------------------
(* One browser beside another caller of the API that deletes documents,    *)
(* requests failing or not                                                 *)

AppNext(maxCalls, maxIssued, maxTime) ==
    \/ \E i \in 1..Len(calls), ok \in BOOLEAN : ServeList(i, ok)
    \/ \E i \in 1..Len(calls), t \in Clock(maxTime), ok \in BOOLEAN :
           ServeCreate(i, t, ok)
    \/ \E i \in 1..Len(calls), t \in Clock(maxTime), ok \in BOOLEAN :
           ServeUpdate(i, t, ok)
    \/ \E i \in 1..Len(calls), ok \in BOOLEAN : ServeDelete(i, ok)
    \/ \E i \in 1..Len(calls) : FetchDone(i)
    \/ \E i \in 1..Len(calls) : AddDone(i)
    \/ \E i \in 1..Len(calls) : ToggleDone(i)
    \/ \E i \in 1..Len(calls) : DeleteDone(i)
    \/ \E i \in 1..Len(calls) : SaveDone(i)
    \/ \E v \in AddTyped : TypeTitle(v)
    \/ SubmitAdd(maxCalls, maxIssued)
    \/ \E k \in 1..Len(todos) : ClickToggle(k, maxCalls, maxIssued)
    \/ \E k \in 1..Len(todos) : ClickDelete(k, maxCalls, maxIssued)
    \/ \E k \in 1..Len(todos) : StartEditing(k)
    \/ \E v \in EditTyped : TypeEdited(v)
    \/ CancelEditing
    \/ \E k \in 1..Len(todos) : ClickSave(k, maxCalls, maxIssued)
    \/ \E id \in Ids(store) : DirectDelete(id, TRUE)

Next == AppNext(MaxCalls, MaxIssued, MaxTime)

Spec == Init /\ [][Next]_vars

----------------------------------------------------------------------------
(* Properties of App *)

\* the rows rendered in edit mode
EditRows(list, id) == {k \in 1..Len(list) : id # NoId /\ list[k]._id = id}

\* a step that sets the edit target to a record: startEditing
BeginsEdit == editingId' # editingId /\ editingId' # NoId

\* C11: at most one row is in edit mode in every reachable state, and Begin
\* edit on a record sets the edit target to its _id and the draft to its
\* current title, whatever edit was in progress, and sends no request.
C11_OneEditTarget ==
    [][/\ Cardinality(EditRows(todos', editingId')) <= 1
       /\ BeginsEdit
             => /\ \E k \in 1..Len(todos) :
                       /\ todos[k]._id = editingId'
                       /\ editedTitle' = todos[k].title
                /\ calls' = calls
                /\ issued' = issued
                /\ store' = store
                /\ todos' = todos]_vars

\* Begin edit has replaced the edit of another record, whose typed draft is
\* gone, and nothing was sent for it
C11_Witness ==
    /\ last.act = "startEditing"
    /\ last.editingId # NoId
    /\ last.editedTitle = <<"b", " ">>
    /\ editingId # last.editingId
    /\ EditRows(todos, editingId) # {}
    /\ \A k \in EditRows(todos, editingId) : editedTitle = todos[k].title
    /\ editedTitle # <<"b", " ">>
    /\ calls = <<>>
    /\ \A d \in store : d.title # <<"b">>

\* a step in which App leaves loading and enters ready
LeavesLoading == loading /\ ~loading'

\* the step resumes the handler of the i-th call
Resumes(i, kind) ==
    /\ i \in 1..Len(calls)
    /\ calls[i].kind = kind
    /\ calls[i].phase # "sent"
    /\ calls' = RemoveAt(calls, i)

\* C12 as stated: whenever App leaves loading, the local sequence is the
\* list response of the server.
C12_ReadyIsListResponse ==
    [][LeavesLoading
          => \E i \in 1..Len(calls) :
                 /\ Resumes(i, "fetch")
                 /\ calls[i].phase = "ok"
                 /\ todos' = calls[i].data]_vars

\* C12, amended: App leaves loading when the initial list request has
\* completed; if it succeeded the local sequence is the list response,
\* whatever the sequence held, and if it failed the sequence is as it was.
C12_ReadyAfterFetch ==
    [][LeavesLoading
          => \E i \in 1..Len(calls) :
                 /\ Resumes(i, "fetch")
                 /\ calls[i].phase = "ok" => todos' = calls[i].data
                 /\ calls[i].phase = "err" => todos' = todos]_vars

\* App has entered ready with the list response, which replaced what an Add
\* answered during loading had left
C12_Witness ==
    /\ last.act = "fetchTodos"
    /\ last.call.phase = "ok"
    /\ ~loading
    /\ last.call.data = <<>>
    /\ todos = <<>>
    /\ store # {}
    /\ title = <<>>

\* C13: when an Add succeeds, the local sequence becomes the returned record
\* followed by the local sequence as it is when the response is handled, so
\* that nothing another response added, replaced or removed meanwhile is
\* lost or brought back (stated here up to the repetition of a record the
\* sequence already holds: the returned record comes first, every record the
\* sequence holds is kept and no other record appears).
C13_AddPrependsCurrent ==
    [][\A i \in 1..Len(calls) :
           (Resumes(i, "add") /\ calls[i].phase = "ok")
              => /\ todos'[1] = calls[i].data[1]
                 /\ Elems(todos') = Elems(todos) \cup {calls[i].data[1]}]_vars

\* the _ids of the records of a sequence
SeqIds(list) == {list[k]._id : k \in 1..Len(list)}

\* the step resumes the handler of the i-th call, whose request succeeded
\* while the response to a Delete or Toggle of the same _id, outstanding at
\* the same time, has just been handled, with success too
HandledAfter(i, kind, act) ==
    /\ Resumes(i, kind)
    /\ calls[i].phase = "ok"
    /\ last.act = act
    /\ last.call.phase = "ok"
    /\ last.call.kind # kind
    /\ last.call.id = calls[i].id

\* C14 as stated: of a Toggle and a Delete of the same _id outstanding at
\* the same time, the response handled last decides the local state: the
\* toggled record the server returned is in the sequence when it is the
\* Toggle's, the record is not in it when it is the Delete's.
C14_LastResponseWins ==
    [][\A i \in 1..Len(calls) :
           /\ (HandledAfter(i, "toggle", "handleDelete")
                  /\ calls[i].data[1] # Null)
                  => calls[i].data[1] \in Elems(todos')
           /\ HandledAfter(i, "delete", "handleToggle")
                  => calls[i].id \notin SeqIds(todos')]_vars

\* C14, amended: the order of the two responses does not matter.  A Delete
\* response removes the record of its _id; a Toggle response that carries a
\* record replaces the record of that _id and inserts nothing when the
\* sequence has none, so that the record is absent once both have
\* succeeded; a Toggle answered with null (the Delete was served first)
\* changes no record and throws while rendering unless the sequence is
\* empty.
C14_DeleteWins ==
    [][\A i \in 1..Len(calls) :
           /\ (Resumes(i, "delete") /\ calls[i].phase = "ok")
                  => /\ todos' = FilterOut(todos, calls[i].id)
                     /\ calls[i].id \notin SeqIds(todos')
           /\ (Resumes(i, "toggle") /\ calls[i].phase = "ok"
                  /\ calls[i].data[1] # Null)
                  => /\ calls[i].data[1]._id = calls[i].id
                     /\ calls[i].id \notin SeqIds(todos)
                            => todos' = todos /\ crashed' = crashed
                     /\ \A k \in 1..Len(todos) :
                            todos'[k] = IF todos[k]._id = calls[i].id
                                        THEN calls[i].data[1] ELSE todos[k]
                     /\ Len(todos') = Len(todos)
           /\ (Resumes(i, "toggle") /\ calls[i].phase = "ok"
                  /\ calls[i].data[1] = Null)
                  => /\ todos' = todos
                     /\ crashed' = (todos # <<>>)
           /\ HandledAfter(i, "toggle", "handleDelete")
                  => calls[i].id \notin SeqIds(todos')
           /\ HandledAfter(i, "delete", "handleToggle")
                  => calls[i].id \notin SeqIds(todos')]_vars

\* a Toggle and a Delete of the same record have both succeeded, the Toggle
\* response (the toggled record) was handled last, and the record is absent
C14_Witness ==
    /\ last.act = "handleToggle"
    /\ last.call.phase = "ok"
    /\ last.call.data[1] # Null
    /\ last.call.data[1].completed
    /\ last.call.id \notin SeqIds(todos)
    /\ last.call.id \notin Ids(store)
    /\ reply.op = "none"
    /\ calls = <<>>
    /\ ~crashed

\* the step sends a request of the given kind
Sends(kind) ==
    /\ Len(calls') = Len(calls) + 1
    /\ calls'[Len(calls')].kind = kind
    /\ calls'[Len(calls')].phase = "sent"

\* the step is the server answering the i-th call
Answers(i, kind) ==
    /\ i \in 1..Len(calls)
    /\ Len(calls') = Len(calls)
    /\ calls[i].kind = kind
    /\ calls[i].phase = "sent"
    /\ calls'[i].phase # "sent"

\* C15: Save edit with a non-empty trimmed draft sends one Update whose
\* body is the trimmed draft as title; on success the record of that _id is
\* replaced in the local sequence by what the server returned and edit mode
\* is exited; on failure the edit target, the draft and the sequence are
\* unchanged.  With an empty trimmed draft nothing is sent and edit mode
\* stays open.
C15_SaveEdit ==
    [][/\ Sends("save")
             => LET c == calls'[Len(calls')]
                IN  /\ calls' = Append(calls, c)
                    /\ issued' = issued + 1
                    /\ c.text = trim(editedTitle)
                    /\ c.text # <<>>
                    /\ c.id = editingId
                    /\ UNCHANGED <<todos, editingId, editedTitle, store>>
       /\ (last' # last /\ last'.act = "saveEditedTodo"
              /\ last'.call.kind = "none")
             => /\ trim(editedTitle) = <<>>
                /\ editingId # NoId
                /\ UNCHANGED <<calls, issued, todos, editingId, editedTitle,
                               store>>
       /\ \A i \in 1..Len(calls) :
              /\ (Answers(i, "save") /\ calls'[i].phase = "ok"
                     /\ calls[i].id \in Ids(store))
                     => /\ calls[i].id \in Ids(store')
                        /\ LET old == ById(store, calls[i].id)
                               new == ById(store', calls[i].id)
                           IN  /\ new.title = calls[i].text
                               /\ new.completed = old.completed
                               /\ calls'[i].data = <<new>>
              /\ (Resumes(i, "save") /\ calls[i].phase = "ok")
                     => /\ Len(todos') = Len(todos)
                        /\ \A k \in 1..Len(todos) :
                               todos'[k] = IF todos[k]._id = calls[i].id
                                           THEN calls[i].data[1] ELSE todos[k]
                        /\ editingId' = NoId
                        /\ editedTitle' = <<>>
              /\ (Resumes(i, "save") /\ calls[i].phase = "err")
                     => UNCHANGED <<todos, editingId, editedTitle>>]_vars

\* a Save edit has succeeded: the row shows the record the server holds,
\* with the trimmed draft as its title, and edit mode is exited
C15_Witness ==
    /\ last.act = "saveEditedTodo"
    /\ last.call.phase = "ok"
    /\ last.call.text = <<"b">>
    /\ last.editingId = last.call.id
    /\ last.editedTitle = <<"b", " ">>
    /\ last.call.data[1] \in store
    /\ last.call.data[1].title = <<"b">>
    /\ last.call.data[1] \in Elems(todos)
    /\ editingId = NoId
    /\ editedTitle = <<>>

\* C16: when an Add, Toggle or Delete request fails, handling the failure
\* changes nothing of what App holds: the sequence, the input, the edit
\* target and the draft are as they were (a failed Add does not clear the
\* input, a failed Delete does not remove the record).
C16_FailureChangesNothing ==
    [][\A i \in 1..Len(calls) :
           \A kind \in {"add", "toggle", "delete"} :
               (Resumes(i, kind) /\ calls[i].phase = "err")
                  => UNCHANGED <<todos, title, loading, editingId, editedTitle,
                                 crashed, store>>]_vars

\* a Delete has failed while the input held a text: the record is still in
\* the sequence, as in the collection, and the input is as it was
C16_Witness ==
    /\ last.act = "handleDelete"
    /\ last.call.phase = "err"
    /\ last.call.id \in SeqIds(todos)
    /\ last.call.id \in Ids(store)
    /\ title = <<"a", " ">>
    /\ ~crashed

----------------------------------------------------------------------------
(* The same, the initial list request completing: the server answers it,   *)
(* with success or with failure, and the event loop then resumes           *)
(* fetchTodos                                                              *)

LiveNext == AppNext(LiveMaxCalls, LiveMaxIssued, LiveMaxTime)

LiveSpec ==
    /\ Init
    /\ [][LiveNext]_vars
    /\ WF_vars(\E i \in 1..Len(calls), ok \in BOOLEAN : ServeList(i, ok))
    /\ WF_vars(\E i \in 1..Len(calls) : FetchDone(i))

\* C17: loading is true initially (as long as App has taken no step since
\* it was mounted), becomes false once the initial list request has
\* completed, with success or with failure, and is never true again,
\* whatever the user does.
C17_LoadingEnds ==
    /\ [](last.act = "mount" => loading)
    /\ <>(~loading)
    /\ [][~loading => ~loading']_vars

\* App has left loading and the response to an Add has been handled since:
\* loading is still false
C17_Witness ==
    /\ ~loading
    /\ last.act = "handleAddTodo"
    /\ last.call.phase = "ok"
    /\ todos = <<last.call.data[1]>>
    /\ issued = 2
    /\ calls = <<>>
    /\ title = <<>>

\* C18: every element of the local sequence is a todo record, in every
\* reachable state: no handler stores null in it, an Update answered for an
\* _id the collection holds no more included.
C18_ListHoldsRecords == \A k \in 1..Len(todos) : todos[k] # Null

\* C19: whenever the edit target is not null, it is the _id of a record of
\* the local sequence; a Delete response that removes a record never leaves
\* the edit target on it.
C19_EditTargetPresent == editingId # NoId => editingId \in SeqIds(todos)

\* C20: a successful Save edit response for a record ends the edit of that
\* record only: when the edit target is by then another record, handling
\* the response leaves the edit target and the draft as they are.
C20_SaveEndsItsOwnEdit ==
    [][\A i \in 1..Len(calls) :
           (Resumes(i, "save") /\ calls[i].phase = "ok"
               /\ editingId # NoId /\ editingId # calls[i].id)
              => UNCHANGED <<editingId, editedTitle>>]_vars

\* C21: the local sequence never holds two records with the same _id, in
\* any reachable state, whatever the order in which the responses of the
\* initial fetch, Add, Toggle, Save edit and Delete are handled (the
\* collection gives every created document an _id of its own).
C21_DistinctIds ==
    \A j, k \in 1..Len(todos) : j # k => todos[j]._id # todos[k]._id

\* an Add submitted during the initial fetch has been answered, its response
\* handled after the list response: the sequence holds the record once
C21_Witness ==
    /\ last.act = "handleAddTodo"
    /\ last.call.phase = "ok"
    /\ raced
    /\ issued = 2
    /\ ~loading
    /\ calls = <<>>
    /\ todos = <<last.call.data[1]>>
    /\ store = {last.call.data[1]}

====
